---- MODULE Spec2Model ----
(***************************************************************************)
(* SmartSaver: the tiered-interest calculator (calculate_bank_interest),   *)
(* the distribution optimizer (optimize_bank_distribution) and the spend   *)
(* allocator (optimize_spend_allocation) of src/Calculator.py.             *)
(*                                                                         *)
(* Units.  Amounts are whole dollars.  A tier's interest_rate is the       *)
(* number of hundredths of a percent in its percentage text ("0.05%" is    *)
(* 5), so float(str(rate).strip('%')) / 100 is rate / 10000 and every      *)
(* interest below is an exact integer in units of 1/10000 dollar.          *)
(* monthly_interest = interest / 12 is kept as the fraction num / den.     *)
(* Descriptions keep the fixed text of the f-strings of the source.        *)
(***************************************************************************)
EXTENDS Integers, Sequences, FiniteSets, TLC

VARIABLES
    pc,               \* position of the run
    loaded_table,     \* which tier table was loaded (banks_data below is the table itself)
    bank,             \* calc: the product calculated
    deposit_amount,   \* calc: the deposit
    requirements,     \* the requirements record (bank_requirements / user_requirements)
    result,           \* calc: what calculate_bank_interest returned or raised
    total_amount,     \* opt: the amount to distribute
    pending,          \* opt: the leaves of the search not yet evaluated, in call order
    top_solutions,    \* opt: the top-3 list
    current_scenario, \* opt: number of try_combination calls so far
    last_reqs,        \* opt: salary_bank and each bank_reqs['has_salary'] of the last try_combination call
    raised,           \* opt, spend: the exception that left the optimizer, or "none"
    total_spend,          \* spend: the card spend to allocate
    deposit_amounts,      \* spend: product -> deposit
    allocations,          \* spend: the base cases of try_allocation not yet evaluated, in call order
    evaluated,            \* spend: the allocations evaluated so far, each with its total interest
    best_allocation,      \* spend: the nonlocals of try_allocation
    best_total_interest,
    best_breakdown,
    OPENAI_AVAILABLE,     \* ai: whether an API key was configured at import
    api_call_count,       \* ai: the module's request counter
    elapsed,              \* ai: current time - last_reset_time in seconds, 60 standing for 60 and more
    attempt,              \* ai: the loop variable of the retry loop
    ai_response           \* ai: what the last call of get_ai_response returned

\* the state of optimize_spend_allocation
spendVars == <<total_spend, deposit_amounts, allocations, evaluated,
               best_allocation, best_total_interest, best_breakdown>>

\* the state of get_ai_response
aiVars == <<OPENAI_AVAILABLE, api_call_count, elapsed, attempt, ai_response>>

\* the state of optimize_bank_distribution and of a single calculator call
optVars == <<bank, deposit_amount, result, total_amount, pending, top_solutions,
             current_scenario, last_reqs>>

vars == <<pc, loaded_table, bank, deposit_amount, requirements, result,
          total_amount, pending, top_solutions, current_scenario, last_reqs, raised,
          total_spend, deposit_amounts, allocations, evaluated,
          best_allocation, best_total_interest, best_breakdown,
          OPENAI_AVAILABLE, api_call_count, elapsed, attempt, ai_response>>

----------------------------------------------------------------------------
(* Python helpers *)

Min(a, b) == IF a <= b THEN a ELSE b
Max(a, b) == IF a >= b THEN a ELSE b

\* d[k] of a dict is defined only when k is a key; d.get(k, default) otherwise
Has(d, k) == k \in DOMAIN d
Get(d, k, default) == IF Has(d, k) THEN d[k] ELSE default

\* d[k] = v on a copy of the dict d
SetItem(d, k, v) == [x \in DOMAIN d \cup {k} |-> IF x = k THEN v ELSE d[x]]

\* the empty dict
EmptyDict == [x \in {} |-> 0]

RECURSIVE SumSeq(_)
SumSeq(s) == IF s = <<>> THEN 0 ELSE Head(s) + SumSeq(Tail(s))

\* [t for t in tiers if t[field] == value]
TiersWhere(bank_info, field, value) ==
    SelectSeq(bank_info.tiers, LAMBDA t : t[field] = value)

\* [t for t in tiers if t['tier_type'] == tier_type and float(t['cap_amount']) == cap]
TiersWithCap(bank_info, tier_type, cap) ==
    SelectSeq(bank_info.tiers, LAMBDA t : t.tier_type = tier_type /\ t.cap_amount = cap)

----------------------------------------------------------------------------
(* Results of one calculation *)

\* mutant: the monthly figure is the yearly interest itself
add_tier_MonthlyIsYearly(amount, rate, description) ==
    [amount_in_tier   |-> amount,
     tier_rate        |-> rate,
     tier_interest    |-> amount * rate,
     monthly_interest |-> [num |-> amount * rate, den |-> 1],
     description      |-> description]

\* add_tier: the breakdown entry appended (the interest returned is its tier_interest)
add_tier(amount, rate, description) ==
    [amount_in_tier   |-> amount,
     tier_rate        |-> rate,
     tier_interest    |-> amount * rate,
     monthly_interest |-> [num |-> amount * rate, den |-> 12],
     description      |-> description]

\* return {'total_interest': ..., 'breakdown': ...}
Returned(total_interest, breakdown, warning) ==
    [fault |-> "none", total_interest |-> total_interest,
     breakdown |-> breakdown, warning |-> warning]

\* the call left by an exception: next() on an exhausted generator, or a missing dict key
Raised(exception) ==
    [fault |-> exception, total_interest |-> 0, breakdown |-> <<>>, warning |-> FALSE]

BreakdownInterest(breakdown) ==
    SumSeq([i \in 1..Len(breakdown) |-> breakdown[i].tier_interest])

----------------------------------------------------------------------------
(* The tier table.  process_interest_rates builds one tier dict per CSV    *)
(* row; the rows themselves are input data.  StandardTable is one such     *)
(* input with every tier the six rule variants look up.                    *)

Tier(tier_type, balance_tier, interest_rate, requirement_type, min_spend, min_salary, cap_amount) ==
    [tier_type        |-> tier_type,
     balance_tier     |-> balance_tier,
     interest_rate    |-> interest_rate,
     requirement_type |-> requirement_type,
     min_spend        |-> min_spend,
     min_salary       |-> min_salary,
     cap_amount       |-> cap_amount,
     remarks          |-> tier_type]

BankInfo(name, tiers) == [bank |-> name, tiers |-> tiers]

SCTiers ==
    << Tier("base",   "1", 5,   "base",   0,    0,    0),
       Tier("salary", "1", 100, "salary", 0,    3000, 100000),
       Tier("spend",  "1", 100, "spend",  1000, 0,    100000),
       Tier("invest", "1", 200, "invest", 0,    0,    100000),
       Tier("insure", "1", 200, "insure", 0,    0,    100000) >>

UOBTiers ==
    << Tier("base",  "1", 5,   "base",       0,   0, 75000),
       Tier("bonus", "1", 65,  "spend_only", 500, 0, 75000),
       Tier("bonus", "2", 5,   "spend_only", 500, 0, 50000),
       Tier("bonus", "3", 5,   "spend_only", 500, 0, 25000),
       Tier("bonus", "1", 200, "giro",       500, 0, 75000),
       Tier("bonus", "2", 300, "giro",       500, 0, 50000),
       Tier("bonus", "3", 5,   "giro",       500, 0, 25000),
       Tier("bonus", "1", 300, "salary",     500, 0, 75000),
       Tier("bonus", "2", 450, "salary",     500, 0, 50000),
       Tier("bonus", "3", 600, "salary",     500, 0, 25000) >>

OCBCTiers ==
    << Tier("base",   "1", 5,   "base",   0,   0,    0),
       Tier("salary", "1", 200, "salary", 0,   1800, 75000),
       Tier("salary", "2", 400, "salary", 0,   1800, 25000),
       Tier("save",   "1", 120, "save",   0,   0,    75000),
       Tier("save",   "2", 240, "save",   0,   0,    25000),
       Tier("spend",  "1", 60,  "spend",  500, 0,    75000),
       Tier("spend",  "2", 60,  "spend",  500, 0,    25000),
       Tier("insure", "1", 120, "insure", 0,   0,    75000),
       Tier("insure", "2", 240, "insure", 0,   0,    25000),
       Tier("invest", "1", 120, "invest", 0,   0,    75000),
       Tier("invest", "2", 240, "invest", 0,   0,    25000),
       Tier("grow",   "1", 240, "grow",   0,   0,    75000),
       Tier("grow",   "2", 240, "grow",   0,   0,    25000) >>

\* the base bands are listed out of order: the calculator sorts them by cap
BOCTiers ==
    << Tier("base",    "2", 20,  "base",    0,    0,    20000),
       Tier("base",    "1", 15,  "base",    0,    0,    5000),
       Tier("base",    "3", 25,  "base",    0,    0,    50000),
       Tier("base",    "4", 30,  "base",    0,    0,    100000),
       Tier("salary",  "1", 190, "salary",  0,    2000, 100000),
       Tier("wealth",  "1", 240, "wealth",  0,    0,    100000),
       Tier("spend",   "1", 50,  "spend",   500,  0,    100000),
       Tier("spend",   "2", 80,  "spend",   1500, 0,    100000),
       Tier("payment", "1", 90,  "payment", 0,    0,    100000) >>

ChocolateTiers ==
    << Tier("base", "1", 360, "base", 0, 0, 20000),
       Tier("base", "2", 320, "base", 0, 0, 30000) >>

\* no cat4_* tier: four active categories select a tier key the table lacks
DBSTiers ==
    << Tier("cat1_low",  "1", 180, "salary", 0, 0, 50000),
       Tier("cat1_mid",  "1", 190, "salary", 0, 0, 50000),
       Tier("cat1_high", "1", 220, "salary", 0, 0, 50000),
       Tier("cat2_low",  "1", 210, "salary", 0, 0, 100000),
       Tier("cat2_mid",  "1", 220, "salary", 0, 0, 100000),
       Tier("cat2_high", "1", 300, "salary", 0, 0, 100000),
       Tier("cat3_low",  "1", 240, "salary", 0, 0, 100000),
       Tier("cat3_mid",  "1", 250, "salary", 0, 0, 100000),
       Tier("cat3_high", "1", 410, "salary", 0, 0, 100000) >>

StandardTable ==
    [b \in {"SC BonusSaver", "UOB One", "OCBC 360", "BOC SmartSaver", "Chocolate", "DBS Multiplier"} |->
        BankInfo(b, CASE b = "SC BonusSaver"  -> SCTiers
                      [] b = "UOB One"        -> UOBTiers
                      [] b = "OCBC 360"       -> OCBCTiers
                      [] b = "BOC SmartSaver" -> BOCTiers
                      [] b = "Chocolate"      -> ChocolateTiers
                      [] b = "DBS Multiplier" -> DBSTiers)]

\* the table with every tier of tier_type removed from one product
WithoutTier(table, name, tier_type) ==
    [b \in DOMAIN table |->
        IF b = name
        THEN BankInfo(b, SelectSeq(table[b].tiers, LAMBDA t : t.tier_type # tier_type))
        ELSE table[b]]

\* a table that loaded no product at all
EmptyTable == [b \in {} |-> BankInfo(b, <<>>)]

MissingTierTable == WithoutTier(StandardTable, "SC BonusSaver", "salary")

\* the loaded tier tables, by name
TierTables ==
    [t \in {"standard", "no SC salary tier", "no Chocolate base tier", "empty"} |->
        CASE t = "standard"               -> StandardTable
          [] t = "no SC salary tier"      -> MissingTierTable
          [] t = "no Chocolate base tier" -> WithoutTier(StandardTable, "Chocolate", "base")
          [] t = "empty"                  -> EmptyTable]

\* banks_data: product name -> [bank, tiers]
banks_data == TierTables[loaded_table]

----------------------------------------------------------------------------
(* calculate_bank_interest, one operator per product branch.  Each checks  *)
(* the lookups in the order the branch makes them: next(...) on a table    *)
(* without the tier raises StopIteration, bank_requirements[k] without     *)
(* the key raises KeyError, and `a and b` reads b only when a is true.     *)

\* mutant: the bonuses apply to the whole deposit
SCEligibleAmount_Uncapped(deposit) == deposit

\* line 56: the amount every bonus of SC BonusSaver applies to
SCEligibleAmount(deposit) == Min(deposit, 100000)

\* mutant: the spend bonus is given whatever the spend is
SCSpendMet_NoThreshold(spend_amount, min_spend) == spend_amount >= 0

\* line 64: the eligibility condition of the spend bonus
SCSpendMet(spend_amount, min_spend) == spend_amount >= min_spend

\* SC BonusSaver: base on the full deposit, four stacking bonuses on min(deposit, 100000)
CalcSCBonusSaver(deposit, bank_info, r) ==
    LET salary_tiers == TiersWhere(bank_info, "tier_type", "salary")
        spend_tiers  == TiersWhere(bank_info, "tier_type", "spend")
        base_tiers   == TiersWhere(bank_info, "tier_type", "base")
        invest_tiers == TiersWhere(bank_info, "tier_type", "invest")
        insure_tiers == TiersWhere(bank_info, "tier_type", "insure")
        salary_tier  == Head(salary_tiers)
        spend_tier   == Head(spend_tiers)
        min_salary   == salary_tier.min_salary
        min_spend    == spend_tier.min_spend
        base_rate    == Head(base_tiers).interest_rate
        eligible_amount == SCEligibleAmount(deposit)
        salary_ok    == r.has_salary /\ r.salary_amount >= min_salary
        spend_ok     == SCSpendMet(r.spend_amount, min_spend)
        salary_part  == IF salary_ok
                        THEN <<add_tier(eligible_amount, salary_tier.interest_rate, "Salary Credit Bonus")>>
                        ELSE <<>>
        spend_part   == IF spend_ok
                        THEN <<add_tier(eligible_amount, spend_tier.interest_rate, "Card Spend Bonus")>>
                        ELSE <<>>
        invest_part  == IF r.has_investments
                        THEN <<add_tier(eligible_amount, Head(invest_tiers).interest_rate, "Investment Bonus (6 months)")>>
                        ELSE <<>>
        insure_part  == IF r.has_insurance
                        THEN <<add_tier(eligible_amount, Head(insure_tiers).interest_rate, "Insurance Bonus (6 months)")>>
                        ELSE <<>>
        total_interest ==
              deposit * base_rate
            + (IF salary_ok THEN eligible_amount * salary_tier.interest_rate ELSE 0)
            + (IF spend_ok THEN eligible_amount * spend_tier.interest_rate ELSE 0)
            + (IF r.has_investments THEN eligible_amount * Head(invest_tiers).interest_rate ELSE 0)
            + (IF r.has_insurance THEN eligible_amount * Head(insure_tiers).interest_rate ELSE 0)
    IN  IF salary_tiers = <<>> \/ spend_tiers = <<>> \/ base_tiers = <<>> THEN Raised("StopIteration")
        ELSE IF ~Has(r, "has_salary") THEN Raised("KeyError")
        ELSE IF r.has_salary /\ ~Has(r, "salary_amount") THEN Raised("KeyError")
        ELSE IF ~Has(r, "spend_amount") THEN Raised("KeyError")
        ELSE IF ~Has(r, "has_investments") THEN Raised("KeyError")
        ELSE IF r.has_investments /\ invest_tiers = <<>> THEN Raised("StopIteration")
        ELSE IF ~Has(r, "has_insurance") THEN Raised("KeyError")
        ELSE IF r.has_insurance /\ insure_tiers = <<>> THEN Raised("StopIteration")
        ELSE Returned(total_interest,
                      <<add_tier(deposit, base_rate, "Base Interest")>>
                          \o salary_part \o spend_part \o invest_part \o insure_part,
                      FALSE)

RECURSIVE UOBLadder(_, _, _)

\* mutant: remaining_amount is never decremented, every tier takes min(deposit, cap)
UOBLadder_KeepsRemaining(tiers, remaining_amount, label) ==
    IF tiers = <<>>
    THEN [total |-> 0, breakdown |-> <<>>]
    ELSE LET tier == Head(tiers)
             amount_in_tier == Min(remaining_amount, tier.cap_amount)
             rest == UOBLadder(Tail(tiers), remaining_amount, label)
         IN  IF amount_in_tier <= 0
             THEN [total |-> 0, breakdown |-> <<>>]
             ELSE [total     |-> amount_in_tier * tier.interest_rate + rest.total,
                   breakdown |-> <<add_tier(amount_in_tier, tier.interest_rate, label)>>
                                    \o rest.breakdown]

\* UOB One: one ladder's tiers in table order, each taking min(remaining, cap)
UOBLadder(tiers, remaining_amount, label) ==
    IF tiers = <<>>
    THEN [total |-> 0, breakdown |-> <<>>]
    ELSE LET tier == Head(tiers)
             amount_in_tier == Min(remaining_amount, tier.cap_amount)
             rest == UOBLadder(Tail(tiers), remaining_amount - amount_in_tier, label)
         IN  IF amount_in_tier <= 0
             THEN [total |-> 0, breakdown |-> <<>>]
             ELSE [total     |-> amount_in_tier * tier.interest_rate + rest.total,
                   breakdown |-> <<add_tier(amount_in_tier, tier.interest_rate, label)>>
                                    \o rest.breakdown]

CalcUOBOne(deposit, bank_info, r) ==
    LET has_spend == r.spend_amount >= 500
        has_giro  == r.giro_count >= 3
        ladder == IF r.has_salary
                  THEN UOBLadder(TiersWhere(bank_info, "requirement_type", "salary"),
                                 deposit, "Salary + Spend")
                  ELSE IF has_giro
                  THEN UOBLadder(TiersWhere(bank_info, "requirement_type", "giro"),
                                 deposit, "GIRO + Spend")
                  ELSE UOBLadder(TiersWhere(bank_info, "requirement_type", "spend_only"),
                                 deposit, "Spend Only")
        base_tiers  == TiersWhere(bank_info, "tier_type", "base")
        base_tier   == Head(base_tiers)
        base_amount == Min(deposit, base_tier.cap_amount)
    IN  IF ~Has(r, "spend_amount") \/ ~Has(r, "has_salary") \/ ~Has(r, "giro_count")
        THEN Raised("KeyError")
        ELSE IF has_spend
        THEN Returned(ladder.total, ladder.breakdown, FALSE)
        ELSE IF base_tiers = <<>> THEN Raised("StopIteration")
        ELSE Returned(base_amount * base_tier.interest_rate,
                      <<add_tier(base_amount, base_tier.interest_rate, "Base Interest")>>,
                      FALSE)

\* mutant: line 291 adds the first band to the base-rate total instead of replacing it
CalcChocolate_KeepsBaseTotal(deposit, bank_info, r) ==
    LET base_tiers  == TiersWhere(bank_info, "tier_type", "base")
        first_tiers == TiersWithCap(bank_info, "base", 20000)
        first_20k   == Min(deposit, 20000)
        rate_20k    == Head(first_tiers).interest_rate
    IN  IF base_tiers = <<>> \/ first_tiers = <<>> THEN Raised("StopIteration")
        ELSE Returned(deposit * Head(base_tiers).interest_rate + first_20k * rate_20k,
                      <<add_tier(first_20k, rate_20k, "First $20,000")>>, FALSE)

\* mutant: the second band takes everything above 20000
ChocolateNextBand_Uncapped(deposit) == deposit - 20000

\* line 296: the part of the deposit in the second band
ChocolateNextBand(deposit) == Min(deposit - 20000, 30000)

\* Chocolate: the base-rate total of line 279 is overwritten by the first band
CalcChocolate(deposit, bank_info, r) ==
    LET base_tiers  == TiersWhere(bank_info, "tier_type", "base")
        first_tiers == TiersWithCap(bank_info, "base", 20000)
        second_tiers == TiersWithCap(bank_info, "base", 30000)
        first_20k   == Min(deposit, 20000)
        next_30k    == ChocolateNextBand(deposit)
        rate_20k    == Head(first_tiers).interest_rate
        rate_30k    == Head(second_tiers).interest_rate
        interest_20k == first_20k * rate_20k
    IN  IF base_tiers = <<>> \/ first_tiers = <<>> THEN Raised("StopIteration")
        ELSE IF deposit > 20000
        THEN IF second_tiers = <<>> THEN Raised("StopIteration")
             ELSE Returned(interest_20k + next_30k * rate_30k,
                           << add_tier(first_20k, rate_20k, "First $20,000"),
                              add_tier(next_30k, rate_30k, "Next $30,000") >>,
                           FALSE)
        ELSE Returned(interest_20k, <<add_tier(first_20k, rate_20k, "First $20,000")>>, FALSE)

\* process_ocbc_tier: a met category adds its 75k tier on first_75k and its 25k tier on next_25k
process_ocbc_tier(bank_info, tier_type, requirement_met, first_75k, next_25k) ==
    LET tiers_75k == TiersWithCap(bank_info, tier_type, 75000)
        tiers_25k == TiersWithCap(bank_info, tier_type, 25000)
        has_75k == requirement_met /\ tiers_75k # <<>>
        has_25k == requirement_met /\ tiers_25k # <<>>
    IN  [total_first_75k |-> IF has_75k THEN first_75k * Head(tiers_75k).interest_rate ELSE 0,
         total_next_25k  |-> IF has_25k THEN next_25k * Head(tiers_25k).interest_rate ELSE 0,
         breakdown |->
             (IF has_75k
              THEN <<add_tier(first_75k, Head(tiers_75k).interest_rate, Head(tiers_75k).remarks)>>
              ELSE <<>>)
          \o (IF has_25k
              THEN <<add_tier(next_25k, Head(tiers_25k).interest_rate, Head(tiers_25k).remarks)>>
              ELSE <<>>)]

\* mutant: the second band takes everything above 75000
OCBCNextBand_Uncapped(deposit) == Max(deposit - 75000, 0)

\* line 153: the part of the deposit in the second band
OCBCNextBand(deposit) == Min(Max(deposit - 75000, 0), 25000)

\* OCBC 360: base on the full deposit plus every met category on the two bands
CalcOCBC360(deposit, bank_info, r) ==
    LET base_tiers   == TiersWhere(bank_info, "tier_type", "base")
        salary_tiers == TiersWhere(bank_info, "tier_type", "salary")
        spend_tiers  == TiersWhere(bank_info, "tier_type", "spend")
        base_rate    == Head(base_tiers).interest_rate
        first_75k    == Min(deposit, 75000)
        next_25k     == OCBCNextBand(deposit)
        has_salary   == r.has_salary /\ r.salary_amount >= Head(salary_tiers).min_salary
        has_spend    == r.spend_amount >= Head(spend_tiers).min_spend
        cats == << process_ocbc_tier(bank_info, "salary", has_salary, first_75k, next_25k),
                   process_ocbc_tier(bank_info, "save", Get(r, "increased_balance", FALSE), first_75k, next_25k),
                   process_ocbc_tier(bank_info, "spend", has_spend, first_75k, next_25k),
                   process_ocbc_tier(bank_info, "insure", Get(r, "has_insurance", FALSE), first_75k, next_25k),
                   process_ocbc_tier(bank_info, "invest", Get(r, "has_investments", FALSE), first_75k, next_25k),
                   process_ocbc_tier(bank_info, "grow", Get(r, "grew_wealth", FALSE), first_75k, next_25k) >>
        total_first_75k == SumSeq([i \in 1..6 |-> cats[i].total_first_75k])
        total_next_25k  == SumSeq([i \in 1..6 |-> cats[i].total_next_25k])
    IN  IF base_tiers = <<>> \/ salary_tiers = <<>> THEN Raised("StopIteration")
        ELSE IF ~Has(r, "has_salary") THEN Raised("KeyError")
        ELSE IF r.has_salary /\ ~Has(r, "salary_amount") THEN Raised("KeyError")
        ELSE IF spend_tiers = <<>> THEN Raised("StopIteration")
        ELSE IF ~Has(r, "spend_amount") THEN Raised("KeyError")
        ELSE Returned(deposit * base_rate + (total_first_75k + total_next_25k),
                      <<add_tier(deposit, base_rate, "Base Interest")>>
                          \o cats[1].breakdown \o cats[2].breakdown \o cats[3].breakdown
                          \o cats[4].breakdown \o cats[5].breakdown \o cats[6].breakdown,
                      FALSE)

\* sorted(base_tiers, key=cap_amount): a stable sort, ascending
RECURSIVE InsertByCap(_, _)
InsertByCap(sorted, tier) ==
    IF sorted = <<>> THEN <<tier>>
    ELSE IF tier.cap_amount < Head(sorted).cap_amount THEN <<tier>> \o sorted
    ELSE <<Head(sorted)>> \o InsertByCap(Tail(sorted), tier)

RECURSIVE SortByCap(_)
SortByCap(tiers) ==
    IF tiers = <<>> THEN <<>>
    ELSE InsertByCap(SortByCap(SubSeq(tiers, 1, Len(tiers) - 1)), tiers[Len(tiers)])

\* the base bands of BOC SmartSaver: the part of the deposit between prev_cap and each cap
RECURSIVE BOCBaseBands(_, _, _)
BOCBaseBands(tiers, deposit, prev_cap) ==
    IF tiers = <<>>
    THEN [total |-> 0, breakdown |-> <<>>]
    ELSE LET tier == Head(tiers)
             cap == tier.cap_amount
             tier_size == cap - prev_cap
             amount_in_tier == Min(Max(0, deposit - prev_cap), tier_size)
             rest == BOCBaseBands(Tail(tiers), deposit, cap)
         IN  IF amount_in_tier <= 0
             THEN [total |-> 0, breakdown |-> <<>>]
             ELSE [total     |-> amount_in_tier * tier.interest_rate + rest.total,
                   breakdown |-> <<add_tier(amount_in_tier, tier.interest_rate, "Base Interest")>>
                                    \o rest.breakdown]

\* mutant: the bonuses are open to every deposit
BOCMinimumBalance_None(deposit) == deposit >= 0

\* line 229: the minimum balance that opens the bonuses of BOC SmartSaver
BOCMinimumBalance(deposit) == deposit >= 1500

\* mutant: the higher sub-tier starts above 1500
BOCSpendBalanceTier_Exclusive(spend_amount) == IF spend_amount > 1500 THEN "2" ELSE "1"

\* lines 254-257: the balance_tier of the spend sub-tier looked up
BOCSpendBalanceTier(spend_amount) == IF spend_amount >= 1500 THEN "2" ELSE "1"

\* BOC SmartSaver: ascending base bands; flat bonuses only when deposit >= 1500
CalcBOCSmartSaver(deposit, bank_info, r) ==
    LET base == BOCBaseBands(SortByCap(TiersWhere(bank_info, "tier_type", "base")), deposit, 0)
        gate == BOCMinimumBalance(deposit)
        salary_ok  == gate /\ Get(r, "has_salary", FALSE) /\ Get(r, "salary_amount", 0) >= 2000
        wealth_ok  == gate /\ Get(r, "has_insurance", FALSE)
        spend_amount == Get(r, "spend_amount", 0)
        spend_ok   == gate /\ spend_amount >= 500
        giro_count == Get(r, "giro_count", 0)
        payment_ok == gate /\ giro_count >= 3
        salary_tiers  == TiersWhere(bank_info, "tier_type", "salary")
        wealth_tiers  == TiersWhere(bank_info, "tier_type", "wealth")
        spend_tiers   == SelectSeq(bank_info.tiers, LAMBDA t :
                             t.tier_type = "spend"
                             /\ t.balance_tier = BOCSpendBalanceTier(spend_amount))
        payment_tiers == TiersWhere(bank_info, "tier_type", "payment")
        Bonus(ok, tiers) == IF ok THEN Min(deposit, Head(tiers).cap_amount) * Head(tiers).interest_rate
                            ELSE 0
        Entry(ok, tiers, label) ==
            IF ok THEN <<add_tier(Min(deposit, Head(tiers).cap_amount), Head(tiers).interest_rate, label)>>
            ELSE <<>>
    IN  IF    (salary_ok /\ salary_tiers = <<>>) \/ (wealth_ok /\ wealth_tiers = <<>>)
           \/ (spend_ok /\ spend_tiers = <<>>) \/ (payment_ok /\ payment_tiers = <<>>)
        THEN Raised("StopIteration")
        ELSE Returned(base.total + Bonus(salary_ok, salary_tiers) + Bonus(wealth_ok, wealth_tiers)
                          + Bonus(spend_ok, spend_tiers) + Bonus(payment_ok, payment_tiers),
                      base.breakdown
                          \o Entry(salary_ok, salary_tiers, "Salary Credit Bonus")
                          \o Entry(wealth_ok, wealth_tiers, "Wealth Bonus (Insurance)")
                          \o Entry(spend_ok, spend_tiers, "Spend Bonus")
                          \o Entry(payment_ok, payment_tiers, "Payment Bonus"),
                      FALSE)

\* calculate_dbs_eligible_transactions: every read is a .get
calculate_dbs_eligible_transactions(r) ==
      (IF Get(r, "has_salary", FALSE) THEN Get(r, "salary_amount", 0) ELSE 0)
    + Get(r, "spend_amount", 0)
    + (IF Get(r, "has_insurance", FALSE) THEN Get(r, "insurance_amount", 0) ELSE 0)
    + (IF Get(r, "has_investments", FALSE) THEN Get(r, "investment_amount", 0) ELSE 0)
    + (IF Get(r, "has_home_loan", FALSE) THEN Get(r, "home_loan_amount", 0) ELSE 0)

\* mutant: a category counts as soon as its flag is set, whatever its amount
count_dbs_categories_FlagsOnly(r) ==
      (IF Get(r, "spend_amount", 0) > 0 THEN 1 ELSE 0)
    + (IF Get(r, "has_insurance", FALSE) THEN 1 ELSE 0)
    + (IF Get(r, "has_investments", FALSE) THEN 1 ELSE 0)
    + (IF Get(r, "has_home_loan", FALSE) THEN 1 ELSE 0)

\* count_dbs_categories: a category counts when its flag is set and its amount is above zero
count_dbs_categories(r) ==
      (IF Get(r, "spend_amount", 0) > 0 THEN 1 ELSE 0)
    + (IF Get(r, "has_insurance", FALSE) /\ Get(r, "insurance_amount", 0) > 0 THEN 1 ELSE 0)
    + (IF Get(r, "has_investments", FALSE) /\ Get(r, "investment_amount", 0) > 0 THEN 1 ELSE 0)
    + (IF Get(r, "has_home_loan", FALSE) /\ Get(r, "home_loan_amount", 0) > 0 THEN 1 ELSE 0)

\* f"cat{category_count}_" + "high" | "mid" | "low", for the counts 1..4 a record can reach
DBSTierType(category_count, total_transactions) ==
    LET band == IF total_transactions >= 30000 THEN 3
                ELSE IF total_transactions >= 15000 THEN 2 ELSE 1
    IN  << <<"cat1_low", "cat1_mid", "cat1_high">>,
           <<"cat2_low", "cat2_mid", "cat2_high">>,
           <<"cat3_low", "cat3_mid", "cat3_high">>,
           <<"cat4_low", "cat4_mid", "cat4_high">> >>[category_count][band]

\* mutant: the lookup of the tier is not guarded, its StopIteration leaves the call
DBSNoMatchingTier_Raises(deposit) == Raised("StopIteration")

\* lines 351-356: `except StopIteration`, the flat rate on the whole deposit and st.error
DBSNoMatchingTier(deposit) ==
    Returned(deposit * 5, <<add_tier(deposit, 5, "Base Interest (No Matching Tier)")>>, TRUE)

\* mutant: the salary prerequisite is never checked
DBSNoSalaryCredit_Unchecked(r) == FALSE

\* line 305: `not bank_requirements['has_salary']`
DBSNoSalaryCredit(r) == ~r.has_salary

\* DBS Multiplier: flat 0.05% without salary or without transactions, else one tier up to its cap
CalcDBSMultiplier(deposit, bank_info, r) ==
    LET base_rate == 5
        total_transactions == calculate_dbs_eligible_transactions(r)
        category_count == count_dbs_categories(r)
        tiers == TiersWhere(bank_info, "tier_type", DBSTierType(category_count, total_transactions))
        tier == Head(tiers)
        cap_amount == tier.cap_amount
        eligible_amount == Min(deposit, cap_amount)
        bonus_part == IF eligible_amount > 0
                      THEN <<add_tier(eligible_amount, tier.interest_rate, "Bonus Interest")>>
                      ELSE <<>>
        above_part == IF deposit > cap_amount
                      THEN <<add_tier(deposit - cap_amount, base_rate, "Base Interest (Amount Above Cap)")>>
                      ELSE <<>>
    IN  IF ~Has(r, "has_salary") THEN Raised("KeyError")
        ELSE IF DBSNoSalaryCredit(r)
        THEN Returned(deposit * base_rate,
                      <<add_tier(deposit, base_rate, "Base Interest (No Salary Credit)")>>, FALSE)
        ELSE IF total_transactions < 500 \/ category_count = 0
        THEN Returned(deposit * base_rate,
                      <<add_tier(deposit, base_rate, "Base Interest (Min Transaction Not Met)")>>, FALSE)
        ELSE IF tiers = <<>>
        THEN DBSNoMatchingTier(deposit)
        ELSE Returned((IF eligible_amount > 0 THEN eligible_amount * tier.interest_rate ELSE 0)
                          + (IF deposit > cap_amount THEN (deposit - cap_amount) * base_rate ELSE 0),
                      bonus_part \o above_part, FALSE)

\* the if/elif chain on bank_info['bank']; any other name falls through to the final return
calculate_bank_interest(deposit, bank_info, r) ==
    CASE bank_info.bank = "SC BonusSaver"  -> CalcSCBonusSaver(deposit, bank_info, r)
      [] bank_info.bank = "UOB One"        -> CalcUOBOne(deposit, bank_info, r)
      [] bank_info.bank = "OCBC 360"       -> CalcOCBC360(deposit, bank_info, r)
      [] bank_info.bank = "BOC SmartSaver" -> CalcBOCSmartSaver(deposit, bank_info, r)
      [] bank_info.bank = "Chocolate"      -> CalcChocolate(deposit, bank_info, r)
      [] bank_info.bank = "DBS Multiplier" -> CalcDBSMultiplier(deposit, bank_info, r)
      [] OTHER                             -> Returned(0, <<>>, FALSE)

----------------------------------------------------------------------------
(* optimize_bank_distribution *)

Increment == 5000

bonus_caps ==
    [b \in {"UOB One", "SC BonusSaver", "OCBC 360", "BOC SmartSaver", "Chocolate"} |->
        CASE b = "UOB One"        -> 150000
          [] b = "SC BonusSaver"  -> 100000
          [] b = "OCBC 360"       -> 100000
          [] b = "BOC SmartSaver" -> 100000
          [] b = "Chocolate"      -> 50000]

all_banks == <<"UOB One", "SC BonusSaver", "OCBC 360", "BOC SmartSaver", "Chocolate">>

salary_banks == <<"SC BonusSaver", "OCBC 360", "BOC SmartSaver">>

\* the placeholder each of the three slots starts with
EmptySolution ==
    [distribution |-> EmptyDict, total_interest |-> 0, breakdown |-> EmptyDict,
     salary_bank |-> "None"]

\* sum(amounts_dict.values())
RECURSIVE SumValues(_)
SumValues(d) ==
    IF DOMAIN d = {} THEN 0
    ELSE LET k == CHOOSE x \in DOMAIN d : TRUE
         IN  d[k] + SumValues([x \in DOMAIN d \ {k} |-> d[x]])

\* try_all_combinations: the calls of try_combination it makes, in order, as
\* [distribution, salary_bank] leaves.  AmountLoop is its loop
\* `for amount in range(0, max_amount + 5000, 5000)`, entered at amount.
RECURSIVE try_all_combinations(_, _, _, _)
RECURSIVE AmountLoop(_, _, _, _, _, _)

\* mutant: the loop is `range(0, max_amount, 5000)` and never tries max_amount itself
AmountLoop_StopsShort(amount, max_amount, remaining_amount, remaining_banks, current_distribution, salary_bank) ==
    IF amount >= max_amount THEN <<>>
    ELSE try_all_combinations(remaining_amount - amount, Tail(remaining_banks),
                              IF amount > 0
                              THEN SetItem(current_distribution, Head(remaining_banks), amount)
                              ELSE current_distribution,
                              salary_bank)
         \o AmountLoop(amount + Increment, max_amount, remaining_amount, remaining_banks,
                       current_distribution, salary_bank)

\* mutant: the loop body runs without its `if amount <= max_amount`
AmountLoop_NoGuard(amount, max_amount, remaining_amount, remaining_banks, current_distribution, salary_bank) ==
    IF amount >= max_amount + Increment THEN <<>>
    ELSE try_all_combinations(remaining_amount - amount, Tail(remaining_banks),
                              IF amount > 0
                              THEN SetItem(current_distribution, Head(remaining_banks), amount)
                              ELSE current_distribution,
                              salary_bank)
         \o AmountLoop(amount + Increment, max_amount, remaining_amount, remaining_banks,
                       current_distribution, salary_bank)

try_all_combinations(remaining_amount, remaining_banks, current_distribution, salary_bank) ==
    IF remaining_banks = <<>>
    THEN IF remaining_amount < Increment
         THEN << [distribution |-> current_distribution, salary_bank |-> salary_bank] >>
         ELSE <<>>
    ELSE AmountLoop(0, Min(remaining_amount, bonus_caps[Head(remaining_banks)]),
                    remaining_amount, remaining_banks, current_distribution, salary_bank)

AmountLoop(amount, max_amount, remaining_amount, remaining_banks, current_distribution, salary_bank) ==
    IF amount >= max_amount + Increment THEN <<>>
    ELSE LET new_distribution == IF amount > 0
                                 THEN SetItem(current_distribution, Head(remaining_banks), amount)
                                 ELSE current_distribution
         IN  (IF amount <= max_amount
              THEN try_all_combinations(remaining_amount - amount, Tail(remaining_banks),
                                        new_distribution, salary_bank)
              ELSE <<>>)
             \o AmountLoop(amount + Increment, max_amount, remaining_amount, remaining_banks,
                           current_distribution, salary_bank)

\* lines 526-529: `for amount in range(0, min(total_amount + 5000, cap + 5000), 5000)`,
\* entered at amount: the salary bank's own amount first, then the other four banks
RECURSIVE SalaryPass(_, _, _)
SalaryPass(amount, total, salary_bank) ==
    IF amount >= Min(total + Increment, bonus_caps[salary_bank] + Increment) THEN <<>>
    ELSE LET initial_distribution == IF amount > 0 THEN SetItem(EmptyDict, salary_bank, amount)
                                     ELSE EmptyDict
             non_salary_banks == SelectSeq(all_banks, LAMBDA b : b # salary_bank)
         IN  (IF amount <= total
              THEN try_all_combinations(total - amount, non_salary_banks,
                                        initial_distribution, salary_bank)
              ELSE <<>>)
             \o SalaryPass(amount + Increment, total, salary_bank)

\* lines 520-533: the three salary passes when has_salary, then the pass without salary credit
AllCombinations(total, user_requirements) ==
    (IF user_requirements.has_salary
     THEN SalaryPass(0, total, salary_banks[1]) \o SalaryPass(0, total, salary_banks[2])
              \o SalaryPass(0, total, salary_banks[3])
     ELSE <<>>)
    \o try_all_combinations(total, all_banks, EmptyDict, "None")

Abs(x) == IF x < 0 THEN -x ELSE x

\* amounts_dict.items(): keys in insertion order, the salary bank's own amount first
Items(amounts_dict, salary_bank) ==
    (IF salary_bank \in DOMAIN amounts_dict THEN <<salary_bank>> ELSE <<>>)
    \o SelectSeq(all_banks, LAMBDA b : b \in DOMAIN amounts_dict /\ b # salary_bank)

\* mutant: the copy is never overridden, every product keeps the user's has_salary
BankReqs_KeepsUserSalary(b, salary_bank, user_requirements) == user_requirements

\* lines 475-480: the per-product copy of the user's requirements
BankReqs(b, salary_bank, user_requirements) ==
    IF b = "UOB One"
    THEN SetItem(SetItem(user_requirements, "has_salary", Get(user_requirements, "has_salary", FALSE)),
                 "salary_amount", Get(user_requirements, "salary_amount", 0))
    ELSE SetItem(user_requirements, "has_salary",
                 (b = salary_bank) /\ user_requirements.has_salary)

\* mutant: the loop runs over all five products and reads amounts_dict[bank] of each
EvaluateCombination_AllBanks(amounts_dict, salary_bank, table, user_requirements) ==
    LET missing == \E i \in 1..Len(all_banks) : all_banks[i] \notin DOMAIN amounts_dict
        reqs == [b \in DOMAIN amounts_dict |-> BankReqs(b, salary_bank, user_requirements)]
        results == [b \in DOMAIN amounts_dict |->
                       IF b \notin DOMAIN table THEN Raised("KeyError")
                       ELSE calculate_bank_interest(amounts_dict[b], table[b], reqs[b])]
    IN  [fault          |-> IF missing \/ \E b \in DOMAIN amounts_dict : results[b].fault # "none"
                            THEN "KeyError" ELSE "none",
         total_interest |-> IF missing THEN 0
                            ELSE SumSeq([i \in 1..Len(all_banks) |-> results[all_banks[i]].total_interest]),
         breakdown      |-> [b \in DOMAIN amounts_dict |-> results[b].breakdown],
         has_salary     |-> [b \in DOMAIN amounts_dict |-> reqs[b].has_salary]]

\* lines 470-484: the loop over the products of one candidate
EvaluateCombination(amounts_dict, salary_bank, table, user_requirements) ==
    LET banks == SelectSeq(Items(amounts_dict, salary_bank), LAMBDA b : amounts_dict[b] > 0)
        reqs == [b \in DOMAIN amounts_dict |-> BankReqs(b, salary_bank, user_requirements)]
        results == [b \in DOMAIN amounts_dict |->
                       IF b \notin DOMAIN table THEN Raised("KeyError")
                       ELSE calculate_bank_interest(amounts_dict[b], table[b], reqs[b])]
        failed == SelectSeq(banks, LAMBDA b : results[b].fault # "none")
        \* the products the loop reached: all of them, or those up to the first that raised
        reached == {banks[i] : i \in {k \in 1..Len(banks) :
                                         \A j \in 1..(k - 1) : results[banks[j]].fault = "none"}}
    IN  [fault          |-> IF failed = <<>> THEN "none" ELSE results[Head(failed)].fault,
         total_interest |-> SumSeq([i \in 1..Len(banks) |-> results[banks[i]].total_interest]),
         breakdown      |-> [b \in reached |-> results[b].breakdown],
         has_salary     |-> [b \in reached |-> reqs[b].has_salary]]

\* mutant: the inserted solution records no salary bank
InsertSolution_NoSalaryBank(top, solution) ==
    LET beaten == {i \in 1..Len(top) : solution.total_interest > top[i].total_interest}
        i == CHOOSE x \in beaten : \A y \in beaten : x <= y
    IN  IF beaten = {} THEN top
        ELSE [j \in 1..Len(top) |->
                 IF j < i THEN top[j]
                 ELSE IF j = i THEN [solution EXCEPT !.salary_bank = "None"]
                 ELSE top[j - 1]]

\* mutant: the slot search runs from the worst entry up and stops at the first it beats
InsertSolution_FromWorst(top, solution) ==
    IF solution.total_interest > top[Len(top)].total_interest
    THEN [j \in 1..Len(top) |-> IF j = Len(top) THEN solution ELSE top[j]]
    ELSE top

\* mutant: a candidate that only equals an entry takes its slot
InsertSolution_TiesOnTop(top, solution) ==
    LET beaten == {i \in 1..Len(top) : solution.total_interest >= top[i].total_interest}
        i == CHOOSE x \in beaten : \A y \in beaten : x <= y
    IN  IF beaten = {} THEN top
        ELSE [j \in 1..Len(top) |-> IF j < i THEN top[j] ELSE IF j = i THEN solution ELSE top[j - 1]]

\* lines 486-497: insert at the first slot the candidate beats, shifting the rest down
InsertSolution(top, solution) ==
    LET beaten == {i \in 1..Len(top) : solution.total_interest > top[i].total_interest}
        i == CHOOSE x \in beaten : \A y \in beaten : x <= y
    IN  IF beaten = {} THEN top
        ELSE [j \in 1..Len(top) |-> IF j < i THEN top[j] ELSE IF j = i THEN solution ELSE top[j - 1]]

NoReqs == [salary_bank |-> "None", has_salary |-> EmptyDict]

\* optimize_bank_distribution up to its first try_combination call: the has_salary
\* read of line 453, the three placeholders, and the search order of lines 517-533
Optimize ==
    /\ pc = "start"
    /\ IF ~Has(requirements, "has_salary")
       THEN /\ pc' = "raised"
            /\ raised' = "KeyError"
            /\ UNCHANGED <<pending, top_solutions>>
       ELSE /\ pc' = "search"
            /\ top_solutions' = <<EmptySolution, EmptySolution, EmptySolution>>
            /\ pending' = AllCombinations(total_amount, requirements)
            /\ UNCHANGED raised
    /\ UNCHANGED <<loaded_table, bank, deposit_amount, requirements, result, total_amount,
                   current_scenario, last_reqs>>
    /\ UNCHANGED spendVars
    /\ UNCHANGED aiVars

\* one call of try_combination, made by the next leaf of the search; an exception
\* of the calculator is caught nowhere and leaves optimize_bank_distribution
TryCombination ==
    /\ pc = "search"
    /\ pending # <<>>
    /\ LET amounts_dict == Head(pending).distribution
           salary_bank == Head(pending).salary_bank
           ev == EvaluateCombination(amounts_dict, salary_bank, banks_data, requirements)
       IN  /\ current_scenario' = current_scenario + 1
           /\ IF Abs(SumValues(amounts_dict) - total_amount) > 5000
              THEN /\ pending' = Tail(pending)
                   /\ UNCHANGED <<pc, raised, top_solutions, last_reqs>>
              ELSE IF ev.fault # "none"
              THEN /\ pc' = "raised"
                   /\ raised' = ev.fault
                   /\ pending' = <<>>
                   /\ last_reqs' = [salary_bank |-> salary_bank, has_salary |-> ev.has_salary]
                   /\ UNCHANGED top_solutions
              ELSE /\ top_solutions' =
                          InsertSolution(top_solutions,
                                         [distribution   |-> amounts_dict,
                                          total_interest |-> ev.total_interest,
                                          breakdown      |-> ev.breakdown,
                                          salary_bank    |-> salary_bank])
                   /\ pending' = Tail(pending)
                   /\ last_reqs' = [salary_bank |-> salary_bank, has_salary |-> ev.has_salary]
                   /\ UNCHANGED <<pc, raised>>
    /\ UNCHANGED <<loaded_table, bank, deposit_amount, requirements, result, total_amount>>
    /\ UNCHANGED spendVars
    /\ UNCHANGED aiVars

\* mutant: instead of returning, the search starts over
Return_SearchesAgain ==
    /\ pc = "search"
    /\ pending = <<>>
    /\ pc' = "start"
    /\ top_solutions' = <<>>
    /\ current_scenario' = 0
    /\ last_reqs' = NoReqs
    /\ UNCHANGED <<loaded_table, bank, deposit_amount, requirements, result, total_amount,
                   pending, raised>>
    /\ UNCHANGED spendVars
    /\ UNCHANGED aiVars

\* line 548: return top_solutions
Return ==
    /\ pc = "search"
    /\ pending = <<>>
    /\ pc' = "returned"
    /\ UNCHANGED <<loaded_table, bank, deposit_amount, requirements, result, total_amount,
                   pending, top_solutions, current_scenario, last_reqs, raised>>
    /\ UNCHANGED spendVars
    /\ UNCHANGED aiVars

\* one call of calculate_bank_interest on a product of the table
Calculate ==
    /\ pc = "calc"
    /\ bank \in DOMAIN banks_data
    /\ result' = calculate_bank_interest(deposit_amount, banks_data[bank], requirements)
    /\ pc' = "calc_done"
    /\ UNCHANGED <<loaded_table, bank, deposit_amount, requirements, total_amount,
                   pending, top_solutions, current_scenario, last_reqs, raised>>
    /\ UNCHANGED spendVars
    /\ UNCHANGED aiVars

----------------------------------------------------------------------------
(* optimize_spend_allocation *)

min_spends ==
    [b \in {"UOB One", "SC BonusSaver", "OCBC 360", "BOC SmartSaver"} |->
        CASE b = "UOB One"        -> 500
          [] b = "SC BonusSaver"  -> 1000
          [] b = "OCBC 360"       -> 500
          [] b = "BOC SmartSaver" -> 500]

\* min_spends.keys(), in the order the dict literal lists them
min_spend_banks == <<"UOB One", "SC BonusSaver", "OCBC 360", "BOC SmartSaver">>

\* min(min_spends.values())
SmallestMinSpend ==
    CHOOSE m \in {min_spends[b] : b \in DOMAIN min_spends} :
        \A b \in DOMAIN min_spends : m <= min_spends[b]

\* lines 1246-1247: the products with a minimum spend and a deposit above zero
eligible_banks(deposits) ==
    SelectSeq(min_spend_banks, LAMBDA b : b \in DOMAIN deposits /\ deposits[b] > 0)

\* mutant: the minimum spend is allocated whether or not that much spend remains
CanAllocate_Always(remaining_spend, min_spend) == TRUE

\* line 1227: `if remaining_spend >= min_spend`
CanAllocate(remaining_spend, min_spend) == remaining_spend >= min_spend

\* try_allocation: the allocations that reach its base case, in call order:
\* the product skipped, then given its minimum spend, then (BOC SmartSaver) given 1500
RECURSIVE try_allocation(_, _, _)
try_allocation(remaining_spend, remaining_banks, current_allocation) ==
    IF remaining_banks = <<>> \/ remaining_spend < SmallestMinSpend
    THEN <<current_allocation>>
    ELSE LET current_bank == Head(remaining_banks)
             min_spend == min_spends[current_bank]
         IN  try_allocation(remaining_spend, Tail(remaining_banks), current_allocation)
             \o (IF CanAllocate(remaining_spend, min_spend)
                 THEN try_allocation(remaining_spend - min_spend, Tail(remaining_banks),
                                     SetItem(current_allocation, current_bank, min_spend))
                      \o (IF current_bank = "BOC SmartSaver" /\ remaining_spend >= 1500
                          THEN try_allocation(remaining_spend - 1500, Tail(remaining_banks),
                                              SetItem(current_allocation, current_bank, 1500))
                          ELSE <<>>)
                 ELSE <<>>)

\* current_allocation.items(): keys in insertion order, which is the order of min_spends
AllocationItems(current_allocation) ==
    SelectSeq(min_spend_banks, LAMBDA b : b \in DOMAIN current_allocation)

\* lines 1193-1199: the per-product copy of base_requirements with its allocated spend
SpendReqs(b, spend, base_requirements) ==
    LET bank_reqs == SetItem(base_requirements, "spend_amount", spend)
    IN  IF b = "UOB One"
        THEN SetItem(SetItem(bank_reqs, "has_salary", Get(base_requirements, "has_salary", FALSE)),
                     "salary_amount", Get(base_requirements, "salary_amount", 0))
        ELSE bank_reqs

\* lines 1189-1207: the loop over the products of one allocation
EvaluateAllocation(current_allocation, table, deposits, base_requirements) ==
    LET banks == AllocationItems(current_allocation)
        results == [b \in DOMAIN current_allocation |->
                       IF b \notin DOMAIN table THEN Raised("KeyError")
                       ELSE calculate_bank_interest(Get(deposits, b, 0), table[b],
                                SpendReqs(b, current_allocation[b], base_requirements))]
        failed == SelectSeq(banks, LAMBDA b : results[b].fault # "none")
    IN  [fault              |-> IF failed = <<>> THEN "none" ELSE results[Head(failed)].fault,
         total_interest     |-> SumSeq([i \in 1..Len(banks) |-> results[banks[i]].total_interest]),
         interest_breakdown |-> results]

\* mutant: an allocation that only equals the best so far replaces it
IsBetter_OrEqual(total_interest, best) == total_interest >= best

\* line 1209: `if total_interest > best_total_interest`
IsBetter(total_interest, best) == total_interest > best

\* optimize_spend_allocation up to the first base case of try_allocation
OptimizeSpend ==
    /\ pc = "spend_start"
    /\ pc' = "allocating"
    /\ best_allocation' = EmptyDict
    /\ best_total_interest' = 0
    /\ best_breakdown' = EmptyDict
    /\ allocations' = try_allocation(total_spend, eligible_banks(deposit_amounts), EmptyDict)
    /\ UNCHANGED <<loaded_table, requirements, raised, total_spend, deposit_amounts, evaluated>>
    /\ UNCHANGED optVars
    /\ UNCHANGED aiVars

\* one base case of try_allocation (lines 1187-1213); an exception of the
\* calculator is caught nowhere and leaves optimize_spend_allocation
TryAllocation ==
    /\ pc = "allocating"
    /\ allocations # <<>>
    /\ LET current_allocation == Head(allocations)
           ev == EvaluateAllocation(current_allocation, banks_data, deposit_amounts, requirements)
       IN  IF ev.fault # "none"
           THEN /\ pc' = "raised"
                /\ raised' = ev.fault
                /\ allocations' = <<>>
                /\ UNCHANGED <<evaluated, best_allocation, best_total_interest, best_breakdown>>
           ELSE /\ allocations' = Tail(allocations)
                /\ evaluated' = Append(evaluated, [allocation     |-> current_allocation,
                                                   total_interest |-> ev.total_interest])
                /\ IF IsBetter(ev.total_interest, best_total_interest)
                   THEN /\ best_allocation' = current_allocation
                        /\ best_total_interest' = ev.total_interest
                        /\ best_breakdown' = ev.interest_breakdown
                   ELSE UNCHANGED <<best_allocation, best_total_interest, best_breakdown>>
                /\ UNCHANGED <<pc, raised>>
    /\ UNCHANGED <<loaded_table, requirements, total_spend, deposit_amounts>>
    /\ UNCHANGED optVars
    /\ UNCHANGED aiVars

\* line 1250: return best_allocation, best_total_interest, best_breakdown
ReturnSpend ==
    /\ pc = "allocating"
    /\ allocations = <<>>
    /\ pc' = "spend_returned"
    /\ UNCHANGED <<loaded_table, requirements, raised>>
    /\ UNCHANGED spendVars
    /\ UNCHANGED optVars
    /\ UNCHANGED aiVars

----------------------------------------------------------------------------
(* get_ai_response (src/ai_utils.py) *)

\* src/config.py line 17
MAX_REQUESTS_PER_MINUTE == 10

\* src/ai_utils.py lines 56-57
max_retries == 5

base_delay == 1

\* the strings get_ai_response returns, by the statement that returns them
AiStrings == {"unavailable", "content", "error", "trouble connecting"}

\* get_ai_response not called
AiIdle ==
    /\ OPENAI_AVAILABLE = FALSE
    /\ api_call_count = 0
    /\ elapsed = 0
    /\ attempt = 0
    /\ ai_response = "none"

\* time.sleep(seconds) and any other passing of time, seen from last_reset_time
After(seconds) == Min(elapsed + seconds, 60)

\* a second passes, between two calls or inside one
TimePasses ==
    /\ pc \in {"ai_idle", "ai_attempt"}
    /\ elapsed < 60
    /\ elapsed' = After(1)
    /\ UNCHANGED <<pc, loaded_table, requirements, raised, OPENAI_AVAILABLE,
                   api_call_count, attempt, ai_response>>
    /\ UNCHANGED <<optVars, spendVars>>

\* lines 34-57: get_ai_response up to its retry loop: the availability test,
\* the reset of the counter after a minute, and the wait when over the limit
GetAiResponse ==
    /\ pc = "ai_idle"
    /\ IF ~OPENAI_AVAILABLE
       THEN /\ pc' = "ai_returned"
            /\ ai_response' = "unavailable"
            /\ UNCHANGED <<api_call_count, elapsed, attempt>>
       ELSE LET minute_passed == elapsed >= 60
                count == IF minute_passed THEN 0 ELSE api_call_count
                since == IF minute_passed THEN 0 ELSE elapsed
                wait_time == 60 - since
                waits == count > MAX_REQUESTS_PER_MINUTE /\ wait_time > 0
            IN  /\ api_call_count' = IF waits THEN 0 ELSE count
                /\ elapsed' = IF waits THEN 0 ELSE since
                /\ attempt' = 0
                /\ pc' = "ai_attempt"
                /\ ai_response' = "none"
    /\ UNCHANGED <<loaded_table, requirements, raised, OPENAI_AVAILABLE>>
    /\ UNCHANGED <<optVars, spendVars>>

\* lines 59-81: one pass of the retry loop: the counter, the request, and either
\* the return of its content or the back-off sleep and, on the last pass, the error string
Attempt ==
    /\ pc = "ai_attempt"
    /\ api_call_count' = api_call_count + 1
    /\ \/ /\ pc' = "ai_returned"
          /\ ai_response' = "content"
          /\ UNCHANGED <<elapsed, attempt>>
       \/ /\ elapsed' = After(base_delay * 2^attempt)
          /\ IF attempt = max_retries - 1
             THEN /\ pc' = "ai_returned"
                  /\ ai_response' = "error"
                  /\ UNCHANGED attempt
             ELSE /\ attempt' = attempt + 1
                  /\ UNCHANGED <<pc, ai_response>>
    /\ UNCHANGED <<loaded_table, requirements, raised, OPENAI_AVAILABLE>>
    /\ UNCHANGED <<optVars, spendVars>>

\* the caller has the string and may call again
NextCall ==
    /\ pc = "ai_returned"
    /\ pc' = "ai_idle"
    /\ UNCHANGED <<loaded_table, requirements, raised, aiVars, optVars, spendVars>>

----------------------------------------------------------------------------
(* Inputs *)

\* a requirements record as streamlit_app builds it (lines 823-837)
Requirements(has_salary, salary_amount, spend_amount, giro_count, insurance, investment, home_loan, increased_balance, grew_wealth) ==
    [has_salary        |-> has_salary,
     salary_amount     |-> salary_amount,
     spend_amount      |-> spend_amount,
     giro_count        |-> giro_count,
     has_insurance     |-> insurance[1],
     has_investments   |-> investment[1],
     increased_balance |-> increased_balance,
     grew_wealth       |-> grew_wealth,
     insurance_amount  |-> insurance[2],
     investment_amount |-> investment[2],
     has_home_loan     |-> home_loan[1],
     home_loan_amount  |-> home_loan[2],
     total_eligible_transactions |-> 0]

\* the record without one of its keys
WithoutKey(r, k) == [x \in DOMAIN r \ {k} |-> r[x]]

\* bound of the optimizer's inputs: total_amount is at most MaxIncrements steps of 5000 (+ 2000)
MaxIncrements == 2

TotalAmounts == {k * Increment + extra : k \in 0..MaxIncrements, extra \in {0, 2000}}

\* totals above a bonus cap (Chocolate's 50000), searched without salary credit only
CapTotals == {55000}

\* a total above the sum of the five bonus caps (500000) plus the tolerance
HugeTotals == {505000}

OptRequirements ==
    { Requirements(hs, IF hs THEN 3000 ELSE 0, sp, 0,
                   IF ins THEN <<TRUE, 500>> ELSE <<FALSE, 0>>, <<FALSE, 0>>, <<FALSE, 0>>,
                   FALSE, FALSE) :
        hs \in BOOLEAN, sp \in {0, 1500}, ins \in BOOLEAN }

NoSalaryRequirements ==
    Requirements(FALSE, 0, 1500, 0, <<FALSE, 0>>, <<FALSE, 0>>, <<FALSE, 0>>, FALSE, FALSE)

SalaryRequirements ==
    Requirements(TRUE, 3000, 1500, 0, <<FALSE, 0>>, <<FALSE, 0>>, <<FALSE, 0>>, FALSE, FALSE)

\* records with absent fields
PartialRequirements ==
    { EmptyDict,
      [has_salary |-> FALSE],
      [has_salary |-> TRUE],
      WithoutKey(SalaryRequirements, "spend_amount"),
      WithoutKey(SalaryRequirements, "has_insurance"),
      WithoutKey(NoSalaryRequirements, "giro_count") }

OptTables == {"standard", "no SC salary tier", "empty"}

CalcRequirements ==
    { Requirements(hs, sa, sp, g, ins, inv, hl, ib, gw) :
        hs \in BOOLEAN, sa \in {0, 2000, 3000, 30000}, sp \in {0, 499, 500, 1000, 1499, 1500}, g \in {0, 3},
        ins \in {<<FALSE, 0>>, <<TRUE, 0>>, <<TRUE, 500>>},
        inv \in {<<FALSE, 0>>, <<TRUE, 15000>>},
        hl \in {<<FALSE, 0>>, <<TRUE, 2000>>},
        ib \in BOOLEAN, gw \in BOOLEAN }

Deposits == {0, 1000, 1500, 10000, 20000, 30000, 60000, 90000, 130000, 500000}

Products == {"SC BonusSaver", "UOB One", "OCBC 360", "BOC SmartSaver", "Chocolate", "DBS Multiplier"}

CalcTables == {"no SC salary tier", "no Chocolate base tier"}

----------------------------------------------------------------------------
(* Specifications *)

NoResult == Raised("not called")

\* optimize_spend_allocation not called
SpendIdle ==
    /\ total_spend = 0
    /\ deposit_amounts = EmptyDict
    /\ allocations = <<>>
    /\ evaluated = <<>>
    /\ best_allocation = EmptyDict
    /\ best_total_interest = 0
    /\ best_breakdown = EmptyDict

\* one optimizer run
InitOf(totals, reqs, tables) ==
    /\ SpendIdle
    /\ AiIdle
    /\ pc = "start"
    /\ loaded_table \in tables
    /\ requirements \in reqs
    /\ total_amount \in totals
    /\ bank = "None"
    /\ deposit_amount = 0
    /\ result = NoResult
    /\ pending = <<>>
    /\ top_solutions = <<>>
    /\ current_scenario = 0
    /\ last_reqs = NoReqs
    /\ raised = "none"

Init ==
    \/ InitOf(TotalAmounts, OptRequirements \cup PartialRequirements, OptTables)
    \/ InitOf(CapTotals, {NoSalaryRequirements}, {"standard"})

Next == Optimize \/ TryCombination \/ Return

Spec == Init /\ [][Next]_vars

\* the search goes on to its next candidate: what every TryCombination step does
\* to the queue of candidates (the next one is due, or an exception dropped them)
SearchAdvances ==
    pc = "search" /\ pending # <<>> /\ pending' \in {Tail(pending), <<>>}

\* the same runs, with the interpreter never stopping short of a step it can take:
\* the call is entered, the search goes on while candidates are left, the return is made
SpecLive ==
    Init /\ [][Next]_vars
         /\ WF_vars(Optimize) /\ WF_pending(SearchAdvances) /\ WF_vars(Return)

\* the same run, also on a total no distribution within the bonus caps can reach
InitHuge ==
    \/ InitOf(TotalAmounts, {NoSalaryRequirements, SalaryRequirements}, {"standard"})
    \/ InitOf(HugeTotals, {NoSalaryRequirements}, {"standard"})

SpecHuge == InitHuge /\ [][Next]_vars

\* the card spends allocated: none, below every minimum, and up to all four products
SpendTotals == {0, 400, 500, 1000, 1400, 1500, 2000, 2500, 3500}

\* the deposits the spend is allocated over: products without a minimum spend,
\* zero deposits and absent products among them
DepositChoices ==
    { EmptyDict,
      [b \in {"BOC SmartSaver"} |-> 50000],
      [b \in {"UOB One", "OCBC 360"} |-> 20000],
      [b \in {"UOB One", "BOC SmartSaver", "Chocolate"} |->
          CASE b = "UOB One" -> 0 [] b = "BOC SmartSaver" -> 1000 [] OTHER -> 20000],
      [b \in {"SC BonusSaver", "OCBC 360", "DBS Multiplier"} |->
          CASE b = "SC BonusSaver" -> 100000 [] b = "OCBC 360" -> 30000 [] OTHER -> 10000],
      [b \in {"UOB One", "SC BonusSaver", "OCBC 360", "BOC SmartSaver"} |->
          CASE b = "UOB One" -> 75000 [] b = "SC BonusSaver" -> 20000
            [] b = "OCBC 360" -> 30000 [] OTHER -> 20000] }

SpendTables == {"standard", "no SC salary tier"}

\* one run of optimize_spend_allocation
InitSpend ==
    /\ AiIdle
    /\ pc = "spend_start"
    /\ loaded_table \in SpendTables
    /\ requirements \in OptRequirements
    /\ total_spend \in SpendTotals
    /\ deposit_amounts \in DepositChoices
    /\ allocations = <<>>
    /\ evaluated = <<>>
    /\ best_allocation = EmptyDict
    /\ best_total_interest = 0
    /\ best_breakdown = EmptyDict
    /\ bank = "None"
    /\ deposit_amount = 0
    /\ result = NoResult
    /\ total_amount = 0
    /\ pending = <<>>
    /\ top_solutions = <<>>
    /\ current_scenario = 0
    /\ last_reqs = NoReqs
    /\ raised = "none"

NextSpend == OptimizeSpend \/ TryAllocation \/ ReturnSpend

SpecSpend == InitSpend /\ [][NextSpend]_vars

\* one call of the calculator on inputs drawn from the bounded sets
InitCalc ==
    /\ SpendIdle
    /\ AiIdle
    /\ pc = "calc"
    /\ \/ loaded_table = "standard" /\ requirements \in CalcRequirements \cup PartialRequirements
       \/ loaded_table \in CalcTables /\ requirements \in OptRequirements
    /\ bank \in Products
    /\ deposit_amount \in Deposits
    /\ result = NoResult
    /\ total_amount = 0
    /\ pending = <<>>
    /\ top_solutions = <<>>
    /\ current_scenario = 0
    /\ last_reqs = NoReqs
    /\ raised = "none"

NextCalc == Calculate

SpecCalc == InitCalc /\ [][NextCalc]_vars

\* the module just imported, with or without an API key, and no call made yet
InitAi ==
    /\ SpendIdle
    /\ pc = "ai_idle"
    /\ OPENAI_AVAILABLE \in BOOLEAN
    /\ api_call_count = 0
    /\ elapsed = 0
    /\ attempt = 0
    /\ ai_response = "none"
    /\ loaded_table = "standard"
    /\ requirements = NoSalaryRequirements
    /\ bank = "None"
    /\ deposit_amount = 0
    /\ result = NoResult
    /\ total_amount = 0
    /\ pending = <<>>
    /\ top_solutions = <<>>
    /\ current_scenario = 0
    /\ last_reqs = NoReqs
    /\ raised = "none"

NextAi == TimePasses \/ GetAiResponse \/ Attempt \/ NextCall

SpecAi == InitAi /\ [][NextAi]_vars

----------------------------------------------------------------------------
(* Properties *)

Solutions == {top_solutions[i] : i \in 1..Len(top_solutions)}

\* C1: whenever calculate_bank_interest returns, for any product, deposit and
\* requirements, total_interest is the sum of tier_interest over the breakdown.
C1_TotalIsBreakdownSum ==
    (pc = "calc_done" /\ result.fault = "none")
        => result.total_interest = BreakdownInterest(result.breakdown)

\* C1 witness: an early return of DBS Multiplier with a positive total
C1_Witness ==
    /\ pc = "calc_done"
    /\ bank = "DBS Multiplier"
    /\ result.fault = "none"
    /\ Len(result.breakdown) = 1
    /\ result.breakdown[1].description = "Base Interest (Min Transaction Not Met)"
    /\ result.total_interest > 0

\* C2: every returned solution, placeholders included, sums to within 5000 of
\* total_amount and keeps every amount within its product's bonus cap.
C2_SolutionsWithinTolerance ==
    pc = "returned" =>
        \A sol \in Solutions :
            /\ Abs(SumValues(sol.distribution) - total_amount) <= 5000
            /\ \A b \in DOMAIN sol.distribution : sol.distribution[b] <= bonus_caps[b]

\* C3: at every point of the search the top-3 list is in non-increasing order
\* of total_interest.
C3_TopSorted ==
    \A i \in 1..(Len(top_solutions) - 1) :
        top_solutions[i].total_interest >= top_solutions[i + 1].total_interest

\* C3 witness: the search under way with three different positive totals kept
C3_Witness ==
    /\ pc = "search"
    /\ Len(top_solutions) = 3
    /\ top_solutions[1].total_interest > top_solutions[2].total_interest
    /\ top_solutions[2].total_interest > top_solutions[3].total_interest
    /\ top_solutions[3].total_interest > 0
    /\ current_scenario > 3

\* C4: a tier missing from one product's table never makes the optimizer
\* abort: the StopIteration of that product's calculation does not leave it.
C4_MissingTierConfined == raised # "StopIteration"

\* the products the optimizer distributes over
BankSet == {all_banks[i] : i \in 1..Len(all_banks)}

\* every distribution in multiples of 5000 with each amount within its bonus cap
\* and 0 <= total - sum < 5000, zero amounts left out
AdmissibleDistributions(total) ==
    LET steps == {k * Increment : k \in 0..(total \div Increment)}
        full  == {f \in [BankSet -> steps] :
                     /\ \A b \in BankSet : f[b] <= bonus_caps[b]
                     /\ total - SumValues(f) >= 0
                     /\ total - SumValues(f) < Increment}
    IN  {[b \in {x \in BankSet : f[x] > 0} |-> f[b]] : f \in full}

\* the salary assignments searched for a requirements record
Scenarios(user_requirements) ==
    (IF user_requirements.has_salary THEN {salary_banks[i] : i \in 1..Len(salary_banks)} ELSE {})
    \cup {"None"}

\* calculate_bank_interest re-run on one product of a distribution
Recalculated(distribution, salary_bank, b) ==
    calculate_bank_interest(distribution[b], banks_data[b], BankReqs(b, salary_bank, requirements))

RECURSIVE SumOver(_, _)
SumOver(S, f) ==
    IF S = {} THEN 0
    ELSE LET x == CHOOSE y \in S : TRUE IN f[x] + SumOver(S \ {x}, f)

RecalculatedTotal(distribution, salary_bank) ==
    SumOver(DOMAIN distribution,
            [b \in DOMAIN distribution |-> Recalculated(distribution, salary_bank, b).total_interest])

\* C5: on return the first solution carries the largest total interest of all
\* admissible candidates (0 when none is positive), and every candidate not in
\* the list earns no more than the third solution.
C5_TopIsBest ==
    pc = "returned" =>
        LET candidates == AdmissibleDistributions(total_amount) \X Scenarios(requirements)
            interest == [c \in candidates |-> RecalculatedTotal(c[1], c[2])]
            kept(c) == \E sol \in Solutions : sol.distribution = c[1] /\ sol.salary_bank = c[2]
        IN  /\ \A c \in candidates : interest[c] <= top_solutions[1].total_interest
            /\ \/ top_solutions[1].total_interest = 0
               \/ \E c \in candidates : interest[c] = top_solutions[1].total_interest
            /\ \A c \in candidates : ~kept(c) => interest[c] <= top_solutions[3].total_interest

\* C5 witness: a returned search whose best solution gives the salary credit to a product
C5_Witness ==
    /\ pc = "returned"
    /\ total_amount >= 2 * Increment
    /\ top_solutions[1].salary_bank # "None"
    /\ top_solutions[3].total_interest > 0

\* C6: for every solution in the list, re-running the calculator on each
\* (product, amount) pair under the solution's salary assignment reproduces the
\* recorded total_interest and the recorded per-product breakdown.
C6_RoundTrip ==
    \A sol \in Solutions :
        /\ sol.total_interest = RecalculatedTotal(sol.distribution, sol.salary_bank)
        /\ sol.breakdown = [b \in DOMAIN sol.distribution |->
                               Recalculated(sol.distribution, sol.salary_bank, b).breakdown]

\* C6 witness: a returned list holding a solution with a salary assignment over two products
C6_Witness ==
    /\ pc = "returned"
    /\ \E sol \in Solutions :
          /\ sol.salary_bank \in DOMAIN sol.distribution
          /\ Cardinality(DOMAIN sol.distribution) = 2
          /\ sol.total_interest > 0

\* C7: for total_amount = 0, with has_salary true or false, the optimizer raises
\* nothing and returns exactly 3 solutions of zero interest and empty distribution.
C7_ZeroAmount ==
    (total_amount = 0 /\ Has(requirements, "has_salary")) =>
        /\ pc # "raised"
        /\ raised = "none"
        /\ pc = "returned" =>
              /\ Len(top_solutions) = 3
              /\ \A sol \in Solutions : sol.total_interest = 0 /\ DOMAIN sol.distribution = {}

\* C7 witness: the run on 0 with salary credit returned after its four empty candidates
C7_Witness ==
    /\ pc = "returned"
    /\ total_amount = 0
    /\ requirements.has_salary
    /\ current_scenario = 4

\* C8: with a tier table that holds no product the optimizer returns without
\* raising, for every total_amount >= 0.
C8_EmptyTableReturns ==
    (loaded_table = "empty" /\ requirements \in OptRequirements) => raised = "none"

WithDefaults(r) ==
    [k \in DOMAIN NoSalaryRequirements |->
        IF k \in DOMAIN r THEN r[k]
        ELSE IF k \in {"has_salary", "has_insurance", "has_investments", "has_home_loan",
                       "increased_balance", "grew_wealth"}
        THEN FALSE ELSE 0]

\* C10: a requirements record with absent fields is accepted for every product:
\* the call returns what it returns with false / 0 in place of the absent fields.
C10_AbsentFieldsDefault ==
    (pc = "calc_done" /\ loaded_table = "standard") =>
        /\ result.fault = "none"
        /\ result = calculate_bank_interest(deposit_amount, banks_data[bank],
                                            WithDefaults(requirements))

\* the tier of a product's table the calculator finds first for a tier_type
FirstTier(b, tier_type) == Head(TiersWhere(banks_data[b], "tier_type", tier_type))

\* how many breakdown entries of the result carry a description
EntryCount(description) ==
    Cardinality({i \in 1..Len(result.breakdown) : result.breakdown[i].description = description})

\* a call of the calculator on a product that returned
ReturnedFor(b) == pc = "calc_done" /\ bank = b /\ result.fault = "none"

\* C11: SC BonusSaver with no salary credit, no investment, no insurance and zero
\* spend returns, for every deposit, total_interest = deposit x base_rate and one
\* breakdown entry, the base interest (10,000 at 0.05% gives 5.00).
C11_SCBaseOnly ==
    (/\ ReturnedFor("SC BonusSaver")
     /\ ~requirements.has_salary /\ ~requirements.has_investments
     /\ ~requirements.has_insurance /\ requirements.spend_amount = 0) =>
        /\ result.total_interest = deposit_amount * FirstTier(bank, "base").interest_rate
        /\ Len(result.breakdown) = 1
        /\ result.breakdown[1].description = "Base Interest"

\* C11 witness: the concrete case, 10,000 at 0.05% returning 5.00 in one entry
C11_Witness ==
    /\ ReturnedFor("SC BonusSaver")
    /\ ~requirements.has_salary /\ ~requirements.has_investments
    /\ ~requirements.has_insurance /\ requirements.spend_amount = 0
    /\ deposit_amount = 10000
    /\ FirstTier(bank, "base").interest_rate = 5
    /\ result.total_interest = 50000
    /\ Len(result.breakdown) = 1

\* C12: for SC BonusSaver the base entry applies to the full deposit, every bonus
\* entry to min(deposit, 100000) at its own tier's rate, and each of the four
\* bonuses is present exactly when its own eligibility condition holds.
C12_SCBonusCapped ==
    ReturnedFor("SC BonusSaver") =>
        LET b == result.breakdown
            r == requirements
            Bonus(description, tier_type, eligible) ==
                /\ EntryCount(description) = (IF eligible THEN 1 ELSE 0)
                /\ \A i \in 1..Len(b) :
                      b[i].description = description =>
                          /\ i > 1
                          /\ b[i].amount_in_tier = Min(deposit_amount, 100000)
                          /\ b[i].amount_in_tier <= 100000
                          /\ b[i].tier_rate = FirstTier(bank, tier_type).interest_rate
        IN  /\ b[1].description = "Base Interest"
            /\ b[1].amount_in_tier = deposit_amount
            /\ EntryCount("Base Interest") = 1
            /\ Bonus("Salary Credit Bonus", "salary",
                     r.has_salary /\ r.salary_amount >= FirstTier(bank, "salary").min_salary)
            /\ Bonus("Card Spend Bonus", "spend",
                     r.spend_amount >= FirstTier(bank, "spend").min_spend)
            /\ Bonus("Investment Bonus (6 months)", "invest", r.has_investments)
            /\ Bonus("Insurance Bonus (6 months)", "insure", r.has_insurance)
            /\ Len(b) = 1 + EntryCount("Salary Credit Bonus") + EntryCount("Card Spend Bonus")
                          + EntryCount("Investment Bonus (6 months)")
                          + EntryCount("Insurance Bonus (6 months)")

\* C12 witness: a deposit of 500,000 with all four bonuses, each on 100,000
C12_Witness ==
    /\ ReturnedFor("SC BonusSaver")
    /\ deposit_amount = 500000
    /\ Len(result.breakdown) = 5
    /\ result.breakdown[1].amount_in_tier = 500000
    /\ \A i \in 2..5 : result.breakdown[i].amount_in_tier = 100000

\* C13: for BOC SmartSaver a deposit below 1500 gives base-band entries only,
\* whatever the salary, insurance, spend and bill-payment values are.
C13_BOCGate ==
    (ReturnedFor("BOC SmartSaver") /\ deposit_amount < 1500) =>
        \A i \in 1..Len(result.breakdown) : result.breakdown[i].description = "Base Interest"

\* C13 witness: a deposit of 1000 with every bonus condition met and one base entry
C13_Witness ==
    /\ ReturnedFor("BOC SmartSaver")
    /\ deposit_amount = 1000
    /\ Get(requirements, "has_salary", FALSE) /\ Get(requirements, "salary_amount", 0) >= 2000
    /\ Get(requirements, "has_insurance", FALSE)
    /\ Get(requirements, "spend_amount", 0) >= 1500
    /\ Get(requirements, "giro_count", 0) >= 3
    /\ Len(result.breakdown) = 1
    /\ result.total_interest > 0

\* the spend tier of BOC SmartSaver with a balance_tier
BOCSpendTier(balance_tier) ==
    Head(SelectSeq(banks_data["BOC SmartSaver"].tiers,
                   LAMBDA t : t.tier_type = "spend" /\ t.balance_tier = balance_tier))

\* C14: for BOC SmartSaver with deposit >= 1500 the spend bonus is the sub-tier
\* '2' exactly when spend >= 1500 (1500 itself included), the sub-tier '1'
\* exactly when 500 <= spend < 1500, and absent when spend < 500.
C14_BOCSpendSubTier ==
    (ReturnedFor("BOC SmartSaver") /\ deposit_amount >= 1500) =>
        LET b == result.breakdown
            spend == Get(requirements, "spend_amount", 0)
            Uses(tier) ==
                /\ EntryCount("Spend Bonus") = 1
                /\ \A i \in 1..Len(b) :
                      b[i].description = "Spend Bonus" =>
                          /\ b[i].tier_rate = tier.interest_rate
                          /\ b[i].amount_in_tier = Min(deposit_amount, tier.cap_amount)
        IN  /\ BOCSpendTier("1").interest_rate # BOCSpendTier("2").interest_rate
            /\ IF spend >= 1500 THEN Uses(BOCSpendTier("2"))
               ELSE IF spend >= 500 THEN Uses(BOCSpendTier("1"))
               ELSE EntryCount("Spend Bonus") = 0

\* C14 witness: spend of exactly 1500 on a deposit above the gate, paid at the higher rate
C14_Witness ==
    /\ ReturnedFor("BOC SmartSaver")
    /\ deposit_amount >= 1500
    /\ Get(requirements, "spend_amount", 0) = 1500
    /\ \E i \in 1..Len(result.breakdown) :
          /\ result.breakdown[i].description = "Spend Bonus"
          /\ result.breakdown[i].tier_rate = BOCSpendTier("2").interest_rate

\* C15: for DBS Multiplier without salary credit the result has exactly one
\* breakdown entry and total_interest = deposit x 0.0005, whatever the deposit
\* and the other requirement values are.
C15_DBSNoSalary ==
    (ReturnedFor("DBS Multiplier") /\ ~requirements.has_salary) =>
        /\ Len(result.breakdown) = 1
        /\ result.breakdown[1].amount_in_tier = deposit_amount
        /\ result.total_interest = deposit_amount * 5

\* C15 witness: no salary credit, but spend and insurance that would otherwise select a bonus tier
C15_Witness ==
    /\ ReturnedFor("DBS Multiplier")
    /\ ~requirements.has_salary
    /\ Get(requirements, "spend_amount", 0) >= 500
    /\ Get(requirements, "has_insurance", FALSE) /\ Get(requirements, "insurance_amount", 0) > 0
    /\ deposit_amount = 10000
    /\ result.total_interest = 50000

\* C16: in every breakdown entry of every product, tier_interest is
\* amount_in_tier x tier_rate and monthly_interest is tier_interest / 12.
C16_EntryInterest ==
    (pc = "calc_done" /\ result.fault = "none") =>
        \A i \in 1..Len(result.breakdown) :
            LET e == result.breakdown[i]
            IN  /\ e.tier_interest = e.amount_in_tier * e.tier_rate
                /\ e.monthly_interest.den # 0
                /\ e.monthly_interest.num * 12 = e.tier_interest * e.monthly_interest.den

\* C16 witness: a result of at least three entries, each with a positive interest
C16_Witness ==
    /\ ReturnedFor("OCBC 360")
    /\ Len(result.breakdown) >= 3
    /\ \A i \in 1..Len(result.breakdown) : result.breakdown[i].tier_interest > 0

\* the ladder of UOB One a requirements record selects, by its requirement_type
UOBLadderKind(r) ==
    IF r.has_salary THEN "salary" ELSE IF r.giro_count >= 3 THEN "giro" ELSE "spend_only"

UOBLadderLabel(kind) ==
    CASE kind = "salary" -> "Salary + Spend"
      [] kind = "giro"   -> "GIRO + Spend"
      [] OTHER           -> "Spend Only"

\* C20: for UOB One a spend below 500 gives one base entry on min(deposit, base
\* cap); otherwise exactly one ladder applies, chosen by priority salary, then
\* three bill payments, then spend only, with no base entry, its tiers taken in
\* table order, each on min(remaining, tier cap) at its own rate, until the
\* tiers or the deposit are exhausted.
C20_UOBOneLadder ==
    ReturnedFor("UOB One") =>
        LET b == result.breakdown
            base == FirstTier(bank, "base")
            kind == UOBLadderKind(requirements)
            tiers == TiersWhere(banks_data[bank], "requirement_type", kind)
            CapBefore(i) == SumSeq([j \in 1..(i - 1) |-> tiers[j].cap_amount])
            n == Cardinality({i \in 1..Len(tiers) : deposit_amount > CapBefore(i)})
        IN  IF requirements.spend_amount < 500
            THEN /\ Len(b) = 1
                 /\ b[1].description = "Base Interest"
                 /\ b[1].amount_in_tier = Min(deposit_amount, base.cap_amount)
                 /\ b[1].tier_rate = base.interest_rate
            ELSE /\ Len(b) = n
                 /\ \A i \in 1..n :
                       /\ b[i].description = UOBLadderLabel(kind)
                       /\ b[i].amount_in_tier = Min(deposit_amount - CapBefore(i), tiers[i].cap_amount)
                       /\ b[i].tier_rate = tiers[i].interest_rate

\* C20 witness: three bill payments without salary credit, 130,000 spread over three tiers
C20_Witness ==
    /\ ReturnedFor("UOB One")
    /\ ~requirements.has_salary
    /\ requirements.giro_count >= 3
    /\ requirements.spend_amount >= 500
    /\ deposit_amount = 130000
    /\ Len(result.breakdown) = 3
    /\ result.breakdown[3].amount_in_tier = 5000
    /\ result.breakdown[3].description = "GIRO + Spend"

\* the run is over: top_solutions was returned, or an exception left the optimizer
Terminated == pc \in {"returned", "raised"}

\* the leaves a search can have: at most four passes, each of depth five with
\* at most total / increment + 1 amounts per product
LeafBound(total) == 4 * (total \div Increment + 1) ^ 5

\* C17: optimize_bank_distribution terminates for every total_amount >= 0 and
\* every requirements record: the number of candidates is bounded by depth and
\* branching, every run comes to its end, and a run on a full table and a full
\* record comes to its return.
C17_Terminates ==
    /\ [](pc = "search" => current_scenario + Len(pending) <= LeafBound(total_amount))
    /\ <>Terminated
    /\ (pc = "start" /\ loaded_table = "standard" /\ requirements \in OptRequirements)
           ~> (pc = "returned")

\* C17 witness: the search on 55,000 returned after more than a thousand candidates
C17_Witness ==
    /\ pc = "returned"
    /\ total_amount = 55000
    /\ current_scenario > 1000

\* the products spend may go to: a minimum spend and a deposit above zero
SpendEligible ==
    {b \in DOMAIN min_spends : b \in DOMAIN deposit_amounts /\ deposit_amounts[b] > 0}

\* spend only on eligible products, at the product's minimum or (BOC SmartSaver
\* alone) at 1500, and no more than total_spend in all
AdmissibleAllocation(a) ==
    /\ DOMAIN a \subseteq SpendEligible
    /\ \A b \in DOMAIN a : a[b] = min_spends[b] \/ (b = "BOC SmartSaver" /\ a[b] = 1500)
    /\ SumValues(a) <= total_spend

\* C18: every allocation optimize_spend_allocation evaluates or returns gives
\* spend only to products with a minimum spend and a nonzero deposit, each at
\* its minimum spend or, for BOC SmartSaver only, at 1500, and the spends sum
\* to at most total_spend.
C18_AllocationsAdmissible ==
    /\ \A i \in 1..Len(allocations) : AdmissibleAllocation(allocations[i])
    /\ \A i \in 1..Len(evaluated) : AdmissibleAllocation(evaluated[i].allocation)
    /\ AdmissibleAllocation(best_allocation)

\* C18 witness: a returned run that evaluated BOC SmartSaver at 1500 with all the spend
\* used, next to products left out for a zero deposit or for having no minimum spend
C18_Witness ==
    /\ pc = "spend_returned"
    /\ SpendEligible # DOMAIN deposit_amounts
    /\ Len(evaluated) >= 3
    /\ \E i \in 1..Len(evaluated) :
          LET a == evaluated[i].allocation
          IN  /\ "BOC SmartSaver" \in DOMAIN a
              /\ a["BOC SmartSaver"] = 1500
              /\ SumValues(a) = total_spend

\* every allocation as C18 describes it, whether or not the search makes it
AllAdmissibleAllocations ==
    LET levels == {0, 500, 1000, 1500}
        full == {f \in [SpendEligible -> levels] :
                    AdmissibleAllocation([b \in {x \in SpendEligible : f[x] > 0} |-> f[b]])}
    IN  {[b \in {x \in SpendEligible : f[x] > 0} |-> f[b]] : f \in full}

\* the total interest of an allocation, by calculate_bank_interest on each product in it
AllocationInterest(a) ==
    SumOver(DOMAIN a,
            [b \in DOMAIN a |->
                calculate_bank_interest(Get(deposit_amounts, b, 0), banks_data[b],
                                        SpendReqs(b, a[b], requirements)).total_interest])

\* C19: optimize_spend_allocation returns a single best allocation: its
\* best_total_interest is the largest recomputed total interest over all the
\* allocations that reached the base case (0 with the empty allocation when none
\* is positive), and its allocation is the first one enumerated that attains it.
C19_SingleBest ==
    pc = "spend_returned" =>
        LET reached == {evaluated[i].allocation : i \in 1..Len(evaluated)}
            attains == {i \in 1..Len(evaluated) :
                           AllocationInterest(evaluated[i].allocation) = best_total_interest}
            first == CHOOSE i \in attains : \A j \in attains : i <= j
        IN  /\ reached = AllAdmissibleAllocations
            /\ \A a \in reached : AllocationInterest(a) <= best_total_interest
            /\ IF \A a \in reached : AllocationInterest(a) <= 0
               THEN best_total_interest = 0 /\ best_allocation = EmptyDict
               ELSE /\ attains # {}
                    /\ best_allocation = evaluated[first].allocation
                    /\ best_breakdown = [b \in DOMAIN best_allocation |->
                           calculate_bank_interest(Get(deposit_amounts, b, 0), banks_data[b],
                               SpendReqs(b, best_allocation[b], requirements))]

\* C19 witness: two allocations attain the best total and the earlier one is returned
C19_Witness ==
    /\ pc = "spend_returned"
    /\ best_total_interest > 0
    /\ \E i, j \in 1..Len(evaluated) :
          /\ i < j
          /\ evaluated[i].total_interest = best_total_interest
          /\ evaluated[j].total_interest = best_total_interest
          /\ best_allocation = evaluated[i].allocation

\* the tier of a product's table with a tier_type and a balance_tier
BandTier(b, tier_type, balance_tier) ==
    Head(SelectSeq(banks_data[b].tiers,
                   LAMBDA t : t.tier_type = tier_type /\ t.balance_tier = balance_tier))

\* C21: for OCBC 360, total_interest is deposit x base_rate plus, for every
\* category whose own test holds (salary, balance growth, spend, insurance,
\* investment, wealth), min(deposit, 75000) x its first-band rate
\* + min(max(deposit - 75000, 0), 25000) x its second-band rate: the categories add up.
C21_OCBCAdditive ==
    ReturnedFor("OCBC 360") =>
        LET r == requirements
            first == Min(deposit_amount, 75000)
            second == Min(Max(deposit_amount - 75000, 0), 25000)
            Category(tier_type, eligible) ==
                IF eligible
                THEN first * BandTier(bank, tier_type, "1").interest_rate
                     + second * BandTier(bank, tier_type, "2").interest_rate
                ELSE 0
        IN  result.total_interest =
                deposit_amount * FirstTier(bank, "base").interest_rate
                + Category("salary", r.has_salary
                                     /\ r.salary_amount >= FirstTier(bank, "salary").min_salary)
                + Category("save", Get(r, "increased_balance", FALSE))
                + Category("spend", r.spend_amount >= FirstTier(bank, "spend").min_spend)
                + Category("insure", Get(r, "has_insurance", FALSE))
                + Category("invest", Get(r, "has_investments", FALSE))
                + Category("grow", Get(r, "grew_wealth", FALSE))

\* C21 witness: all six categories met on a deposit that reaches into the second band
C21_Witness ==
    /\ ReturnedFor("OCBC 360")
    /\ deposit_amount = 90000
    /\ requirements.has_salary /\ requirements.salary_amount >= 3000
    /\ requirements.spend_amount >= 500
    /\ requirements.increased_balance /\ requirements.grew_wealth
    /\ requirements.has_insurance /\ requirements.has_investments
    /\ Len(result.breakdown) = 13

DBSVolume ==
    LET r == requirements
    IN  Get(r, "salary_amount", 0) + Get(r, "spend_amount", 0)
        + (IF Get(r, "has_insurance", FALSE) THEN Get(r, "insurance_amount", 0) ELSE 0)
        + (IF Get(r, "has_investments", FALSE) THEN Get(r, "investment_amount", 0) ELSE 0)
        + (IF Get(r, "has_home_loan", FALSE) THEN Get(r, "home_loan_amount", 0) ELSE 0)

\* the categories of a requirements record that count, as C23 states them
DBSCategories ==
    LET r == requirements
    IN  {c \in {"spend", "insurance", "investment", "home loan"} :
            \/ c = "spend" /\ Get(r, "spend_amount", 0) > 0
            \/ c = "insurance" /\ Get(r, "has_insurance", FALSE) /\ Get(r, "insurance_amount", 0) > 0
            \/ c = "investment" /\ Get(r, "has_investments", FALSE) /\ Get(r, "investment_amount", 0) > 0
            \/ c = "home loan" /\ Get(r, "has_home_loan", FALSE) /\ Get(r, "home_loan_amount", 0) > 0}

\* the tiers of the table keyed by (count, band) of the current record
DBSKeyedTiers ==
    LET band == IF DBSVolume >= 30000 THEN "high" ELSE IF DBSVolume >= 15000 THEN "mid" ELSE "low"
        count == Cardinality(DBSCategories)
    IN  SelectSeq(banks_data["DBS Multiplier"].tiers,
                  LAMBDA t : \E n \in 1..4 :
                      /\ n = count
                      /\ t.tier_type = DBSTierType(n, IF band = "high" THEN 30000
                                                      ELSE IF band = "mid" THEN 15000 ELSE 0))

\* C23: DBS Multiplier with salary credited: with volume below 500 or no category
\* the whole deposit earns 0.05%; otherwise, when the table has the tier keyed by
\* (category count, volume band), its rate applies to min(deposit, cap) and the
\* amount above the cap earns 0.05%.
C23_DBSTierByVolumeAndCount ==
    (ReturnedFor("DBS Multiplier") /\ requirements.has_salary) =>
        IF DBSVolume < 500 \/ DBSCategories = {}
        THEN /\ result.total_interest = deposit_amount * 5
             /\ Len(result.breakdown) = 1
             /\ result.breakdown[1].amount_in_tier = deposit_amount
             /\ result.breakdown[1].tier_rate = 5
        ELSE DBSKeyedTiers # <<>> =>
                 LET tier == Head(DBSKeyedTiers)
                 IN  /\ result.total_interest =
                            Min(deposit_amount, tier.cap_amount) * tier.interest_rate
                            + Max(deposit_amount - tier.cap_amount, 0) * 5
                     /\ deposit_amount > 0 =>
                            /\ result.breakdown[1].amount_in_tier = Min(deposit_amount, tier.cap_amount)
                            /\ result.breakdown[1].tier_rate = tier.interest_rate
                     /\ deposit_amount > tier.cap_amount =>
                            /\ Len(result.breakdown) = 2
                            /\ result.breakdown[2].amount_in_tier = deposit_amount - tier.cap_amount
                            /\ result.breakdown[2].tier_rate = 5

\* C23 witness: three categories and a mid-band volume on a deposit above the tier's cap
C23_Witness ==
    /\ ReturnedFor("DBS Multiplier")
    /\ requirements.has_salary
    /\ Cardinality(DBSCategories) = 3
    /\ DBSVolume >= 15000 /\ DBSVolume < 30000
    /\ DBSKeyedTiers # <<>>
    /\ deposit_amount > Head(DBSKeyedTiers).cap_amount
    /\ Len(result.breakdown) = 2

\* C23 witness of the flat branch: salary credited, a flagged insurance without premium, no volume
C23_WitnessFlat ==
    /\ ReturnedFor("DBS Multiplier")
    /\ requirements.has_salary
    /\ Get(requirements, "has_insurance", FALSE) /\ Get(requirements, "insurance_amount", 0) = 0
    /\ DBSCategories = {}
    /\ deposit_amount = 10000
    /\ result.total_interest = 50000

\* C24: DBS Multiplier, when the table has no tier for the selected key, does not
\* fail: it returns one breakdown entry, 0.05% on the whole deposit, with a warning.
C24_DBSNoMatchingTierFallsBack ==
    (/\ pc = "calc_done" /\ bank = "DBS Multiplier"
     /\ Has(requirements, "has_salary") /\ requirements.has_salary
     /\ DBSVolume >= 500 /\ DBSCategories # {}
     /\ DBSKeyedTiers = <<>>) =>
        /\ result.fault = "none"
        /\ result.warning
        /\ result.total_interest = deposit_amount * 5
        /\ Len(result.breakdown) = 1
        /\ result.breakdown[1].amount_in_tier = deposit_amount
        /\ result.breakdown[1].tier_rate = 5
        /\ result.breakdown[1].description = "Base Interest (No Matching Tier)"

\* C24 witness: four categories, for which the table has no tier
C24_Witness ==
    /\ ReturnedFor("DBS Multiplier")
    /\ Cardinality(DBSCategories) = 4
    /\ DBSKeyedTiers = <<>>
    /\ deposit_amount = 60000
    /\ result.warning
    /\ result.total_interest = 300000

\* the slots of the top-3 list that a step changes
ChangedSlots == {i \in 1..Len(top_solutions) : top_solutions'[i] # top_solutions[i]}

\* C25: ties in the top-3 list are broken by discovery order: whenever a step
\* changes the list, the entry it writes is the candidate under evaluation, every
\* entry whose total_interest equals (or exceeds) the candidate's stays in its
\* slot above it, and the entries below move down one slot in their order.
C25_TiesKeepDiscoveryOrder ==
    [][ (pc = "search" /\ ChangedSlots # {}) =>
            LET k == CHOOSE x \in ChangedSlots : \A y \in ChangedSlots : x <= y
                new == top_solutions'[k]
            IN  /\ new.distribution = Head(pending).distribution
                /\ new.salary_bank = Head(pending).salary_bank
                /\ \A i \in 1..Len(top_solutions) :
                       top_solutions[i].total_interest >= new.total_interest =>
                           i < k /\ top_solutions'[i] = top_solutions[i]
                /\ \A i \in (k + 1)..Len(top_solutions) :
                       top_solutions'[i] = top_solutions[i - 1] ]_vars

\* C25 witness: two returned solutions with the same positive total interest
C25_Witness ==
    /\ pc = "returned"
    /\ top_solutions[1].total_interest > 0
    /\ top_solutions[1].total_interest = top_solutions[2].total_interest
    /\ top_solutions[1].salary_bank = "SC BonusSaver"
    /\ top_solutions[2].salary_bank = "OCBC 360"

\* C26: every candidate handed to try_combination has
\* 0 <= total_amount - sum(distribution) < 5000 and stores only positive
\* multiples of 5000 (no zero allocation), so the tolerance test
\* |sum - total_amount| > 5000 never rejects one.
C26_CandidatesWithinTolerance ==
    \A i \in 1..Len(pending) :
        LET d == pending[i].distribution
        IN  /\ 0 <= total_amount - SumValues(d)
            /\ total_amount - SumValues(d) < 5000
            /\ \A b \in DOMAIN d : d[b] > 0 /\ d[b] % 5000 = 0
            /\ ~(Abs(SumValues(d) - total_amount) > 5000)

\* C26 witness: the search under way on a total of 12000, the next candidate
\* holding two products of 5000 and leaving 2000 undistributed
C26_Witness ==
    /\ pc = "search"
    /\ current_scenario > 0
    /\ total_amount = 12000
    /\ pending # <<>>
    /\ Cardinality(DOMAIN Head(pending).distribution) = 2
    /\ SumValues(Head(pending).distribution) = 10000

\* C27: the returned solutions with positive total_interest are pairwise
\* distinct distributions: no product-to-amount mapping holds two of the three slots.
C27_DistinctDistributions ==
    pc = "returned" =>
        \A i, j \in 1..Len(top_solutions) :
            (/\ i < j
             /\ top_solutions[i].total_interest > 0
             /\ top_solutions[j].total_interest > 0) =>
                top_solutions[i].distribution # top_solutions[j].distribution

\* C28: a returned solution whose salary assignment names a product holds a
\* nonzero amount of that product, and without has_salary every returned
\* solution has salary assignment none.
C28_SalaryProductFunded ==
    pc = "returned" =>
        \A i \in 1..Len(top_solutions) :
            LET sol == top_solutions[i]
            IN  /\ sol.salary_bank # "None" =>
                       /\ sol.salary_bank \in DOMAIN sol.distribution
                       /\ sol.distribution[sol.salary_bank] > 0
                /\ ~Get(requirements, "has_salary", FALSE) => sol.salary_bank = "None"

\* the second half of C28 alone: without has_salary no returned solution names a salary product
C28_NoSalaryNoAssignment ==
    (pc = "returned" /\ ~Get(requirements, "has_salary", FALSE)) =>
        \A i \in 1..Len(top_solutions) : top_solutions[i].salary_bank = "None"

\* the products holding a nonzero deposit
FundedProducts == {b \in DOMAIN deposit_amounts : deposit_amounts[b] > 0}

\* the interest of all funded products under an allocation, a product without spend at zero spend
InterestOverDeposits(a) ==
    SumOver(FundedProducts,
            [b \in FundedProducts |->
                calculate_bank_interest(deposit_amounts[b], banks_data[b],
                                        SpendReqs(b, Get(a, b, 0), requirements)).total_interest])

\* C29: the total interest optimize_spend_allocation gives an allocation is
\* summed over every product with a nonzero deposit, a product given no spend
\* contributing the interest of its deposit at zero spend.
C29_InterestOverAllDeposits ==
    loaded_table = "standard" =>
        \A i \in 1..Len(evaluated) :
            evaluated[i].total_interest = InterestOverDeposits(evaluated[i].allocation)

\* C30: across any sequence of get_ai_response calls the requests issued since
\* the last reset of the counter never exceed MAX_REQUESTS_PER_MINUTE, retries
\* counted; one call makes at most 5 attempts and returns a string.
C30_RateLimited ==
    /\ api_call_count <= MAX_REQUESTS_PER_MINUTE
    /\ attempt < 5
    /\ pc = "ai_returned" => ai_response \in AiStrings

\* the second half of C30 alone: at most 5 attempts a call, and a string returned
C30_FiveAttemptsAndAString ==
    /\ attempt < 5
    /\ pc = "ai_returned" => ai_response \in AiStrings

====
